---- MODULE Spec2Model ----
(***************************************************************************)
(* Run lifecycle and solver dispatch of the optimisation platform:         *)
(*   app/workers/worker.py  solve_model_task  (the Celery task)            *)
(*   app/workers/solve.py   get_solver_adapter, solve_model, the adapters  *)
(*   app/api/models.py      Run               (the persisted row)          *)
(*                                                                         *)
(* Python values are modelled as follows.  None is the empty sequence and  *)
(* a present value x is <<x>>; a str is a sequence of one-character        *)
(* strings, so that lower(), upper(), startswith(), replace() and int()    *)
(* are computed character by character; a dict is a record.                *)
(***************************************************************************)
EXTENDS Integers, Sequences, FiniteSets, TLC

\* ------------------------------------------------------------------ bounds

\* datetime.utcnow() is read from a clock that advances up to MaxTime.
MaxTime == 1

\* ------------------------------------------------------------ Python values

None == <<>>

Some(x) == <<x>>

Lowers == << "a", "b", "c", "d", "e", "f", "g", "h", "i", "j", "k", "l", "m",
             "n", "o", "p", "q", "r", "s", "t", "u", "v", "w", "x", "y", "z" >>

Uppers == << "A", "B", "C", "D", "E", "F", "G", "H", "I", "J", "K", "L", "M",
             "N", "O", "P", "Q", "R", "S", "T", "U", "V", "W", "X", "Y", "Z" >>

Digits == << "0", "1", "2", "3", "4", "5", "6", "7", "8", "9" >>

Range(s) == { s[i] : i \in DOMAIN s }

IndexIn(c, s) == CHOOSE i \in DOMAIN s : s[i] = c

\* str.lower(): every cased character is mapped to its lower-case form.
lower(s) ==
    [ i \in DOMAIN s |->
        IF s[i] \in Range(Uppers) THEN Lowers[IndexIn(s[i], Uppers)] ELSE s[i] ]

\* str.upper()
upper(s) ==
    [ i \in DOMAIN s |->
        IF s[i] \in Range(Lowers) THEN Uppers[IndexIn(s[i], Lowers)] ELSE s[i] ]

\* str.startswith(p)
startswith(s, p) == Len(s) >= Len(p) /\ SubSeq(s, 1, Len(p)) = p

\* str.replace(old, ""): every non-overlapping occurrence of old, scanning
\* from the left, is removed.
RECURSIVE remove(_, _)
remove(s, old) ==
    IF s = <<>> THEN <<>>
    ELSE IF startswith(s, old) THEN remove(SubSeq(s, Len(old) + 1, Len(s)), old)
    ELSE <<Head(s)>> \o remove(Tail(s), old)

\* The value of a sequence of decimal digits.
RECURSIVE digitsValue(_)
digitsValue(s) ==
    IF s = <<>> THEN 0
    ELSE 10 * digitsValue(SubSeq(s, 1, Len(s) - 1)) + (IndexIn(s[Len(s)], Digits) - 1)

\* int(s) for a str: Some(n) for a non-empty run of decimal digits, None
\* where int() raises ValueError.
int(s) ==
    IF s # <<>> /\ Range(s) \subseteq Range(Digits) THEN Some(digitsValue(s)) ELSE None

\* ------------------------------------------------------------ str literals

S_run_ == << "r", "u", "n", "_" >>
S_LP == << "L", "P" >>
S_MIP == << "M", "I", "P" >>
S_QP == << "Q", "P" >>
S_NLP == << "N", "L", "P" >>
S_ortools == << "o", "r", "t", "o", "o", "l", "s" >>
S_scip == << "s", "c", "i", "p" >>
S_glop == << "g", "l", "o", "p" >>
S_cvxpy == << "c", "v", "x", "p", "y" >>
S_cvx == << "c", "v", "x" >>
S_pyomo == << "p", "y", "o", "m", "o" >>
S_ipopt == << "i", "p", "o", "p", "t" >>
S_unknown == << "u", "n", "k", "n", "o", "w", "n" >>
S_CVXPY == << "C", "V", "X", "P", "Y" >>
S_gurobi == << "g", "u", "r", "o", "b", "i" >>
S_nlp == << "n", "l", "p" >>
S_BO == << "B", "O" >>
S_CUSTOM == << "C", "U", "S", "T", "O", "M" >>
S_lp == << "l", "p" >>

S_Lp == << "L", "p" >>

S_Gurobi == << "G", "u", "r", "o", "b", "i" >>
S_XYZ == << "X", "Y", "Z" >>
S_m == << "m" >>
S_qp == << "q", "p" >>

\* --------------------------------------------------------- solver adapters

\* float("inf"), the value cvxpy reports for an infeasible minimisation.
PosInf == 1000

\* What an adapter's solve() does: it raises, or it returns a result dict.
Raise(exc) == [ raised |-> TRUE, exc |-> exc ]

Return(result) == [ raised |-> FALSE, result |-> result ]

\* Objective values an engine reports for a solved problem.
ObjValues == { 0, 10 }

\* What the runtime environment answers to an adapter: whether the binding
\* is importable, whether the engine instance could be created, and the
\* engine's native status and objective value.
OrtoolsEngine ==
    { [ installed |-> FALSE, created |-> FALSE, native |-> "NOT_SOLVED", value |-> 0 ],
      [ installed |-> TRUE, created |-> FALSE, native |-> "NOT_SOLVED", value |-> 0 ] }
    \cup { [ installed |-> TRUE, created |-> TRUE, native |-> n, value |-> v ] :
             n \in { "OPTIMAL", "FEASIBLE" }, v \in ObjValues }
    \cup { [ installed |-> TRUE, created |-> TRUE, native |-> n, value |-> 0 ] :
             n \in { "INFEASIBLE", "UNBOUNDED", "ABNORMAL", "NOT_SOLVED" } }

CvxpyEngine ==
    { [ installed |-> FALSE, created |-> FALSE, native |-> "unknown", value |-> 0 ] }
    \cup { [ installed |-> TRUE, created |-> TRUE, native |-> n, value |-> v ] :
             n \in { "optimal", "optimal_inaccurate" }, v \in ObjValues }
    \cup { [ installed |-> TRUE, created |-> TRUE, native |-> "infeasible", value |-> PosInf ],
           [ installed |-> TRUE, created |-> TRUE, native |-> "unbounded", value |-> 0 - PosInf ] }

PyomoEngine ==
    { [ installed |-> FALSE, created |-> FALSE, native |-> "unknown", value |-> 0,
        loaded |-> FALSE ],
      [ installed |-> TRUE, created |-> FALSE, native |-> "unknown", value |-> 0,
        loaded |-> FALSE ] }
    \cup { [ installed |-> TRUE, created |-> TRUE, native |-> n, value |-> 0, loaded |-> l ] :
             n \in { "ok", "warning", "error", "aborted" }, l \in BOOLEAN }

CommercialEngine ==
    { [ installed |-> FALSE, created |-> FALSE, native |-> "unknown", value |-> 0 ] }

\* dict.get(key, default)
get(d, key, default) == IF key \in DOMAIN d THEN d[key] ELSE default

\* model_json.get("decision_variables", [])
decision_variables_of(model_json) == get(model_json, "decision_variables", <<>>)

\* name = var["name"] raises KeyError for an entry without a name.
NamesPresent(dvs) == \A i \in 1..Len(dvs) : "name" \in DOMAIN dvs[i]

\* var.get("lower", 0) or 0: an absent, null or zero lower bound gives 0.
lower_or_zero(var) ==
    LET lb == get(var, "lower", Some(0))
    IN  IF lb = None \/ lb = Some(0) THEN 0 ELSE lb[1]

\* var.get("upper", None)
upper_of(var) == get(var, "upper", None)

\* var.get("integrality", "continuous")
integrality_of(var) == get(var, "integrality", "continuous")

\* The variable OrtoolsSolver.solve creates for one entry (lines 92-99).
OrtoolsVar(var) ==
    LET lb == lower_or_zero(var)
        ub == upper_of(var)
    IN  [ ctor |-> IF integrality_of(var) = "integer" THEN "IntVar" ELSE "NumVar",
          lb |-> lb,
          ub |-> IF ub # None THEN ub[1] ELSE PosInf,
          name |-> var.name ]

\* The variable CvxpySolver.solve creates for one entry (lines 140-146).
CvxpyVar(var) ==
    [ ctor |-> "Variable", integer |-> (integrality_of(var) = "integer"), name |-> var.name ]

\* The variable PyomoSolver.solve creates for one entry (lines 179-187).
PyomoVar(var) ==
    LET lb == lower_or_zero(var)
        ub == upper_of(var)
    IN  [ ctor |-> "Var",
          bounds |-> IF ub # None THEN << lb, ub >> ELSE << lb, None >>,
          within |-> IF integrality_of(var) = "integer" THEN "Integers" ELSE "Reals",
          name |-> var.name ]

\* The engine variables an adapter creates, in the order of the entries.
EngineVars(cls, model_json) ==
    LET dvs == decision_variables_of(model_json)
    IN  [ i \in 1..Len(dvs) |->
            CASE cls = "OrtoolsSolver" -> OrtoolsVar(dvs[i])
              [] cls = "CvxpySolver" -> CvxpyVar(dvs[i])
              [] OTHER -> PyomoVar(dvs[i]) ]

\* The dict `variables`: each name bound to the variable created last under
\* it, given by its position among the created ones.
VariableMap(model_json) ==
    LET dvs == decision_variables_of(model_json)
    IN  [ n \in { dvs[i].name : i \in 1..Len(dvs) } |->
            CHOOSE i \in 1..Len(dvs) :
                /\ dvs[i].name = n
                /\ \A j \in 1..Len(dvs) : dvs[j].name = n => j <= i ]

OrtoolsSolver_solve(model_json, params, engine) ==
    IF ~engine.installed THEN Raise("RuntimeError")
    ELSE IF ~engine.created THEN Raise("RuntimeError")
    ELSE IF ~NamesPresent(decision_variables_of(model_json)) THEN Raise("KeyError")
    ELSE LET status == IF engine.native = "OPTIMAL" THEN "optimal"
                       ELSE IF engine.native = "FEASIBLE" THEN "feasible"
                       ELSE "infeasible"
         IN  Return([ solver |-> "ortools",
                      status |-> status,
                      objective_value |->
                          IF status \in { "optimal", "feasible" }
                          THEN Some(engine.value) ELSE None,
                      variables |-> VariableMap(model_json) ])

CvxpySolver_solve(model_json, params, engine) ==
    IF ~engine.installed THEN Raise("RuntimeError")
    ELSE IF ~NamesPresent(decision_variables_of(model_json)) THEN Raise("KeyError")
    ELSE Return([ solver |-> "cvxpy",
                  status |-> engine.native,
                  objective_value |-> Some(engine.value),
                  variables |-> VariableMap(model_json) ])

\* solver.available() is the engine's answer for the name asked by
\* params.get("solver_name", "glpk"); pyo.value(var) raises ValueError for a
\* variable the solver left without a value.
PyomoSolver_solve(model_json, params, engine) ==
    IF ~engine.installed THEN Raise("RuntimeError")
    ELSE IF ~NamesPresent(decision_variables_of(model_json)) THEN Raise("KeyError")
    ELSE IF ~engine.created THEN Raise("RuntimeError")
    ELSE IF ~engine.loaded /\ decision_variables_of(model_json) # <<>> THEN Raise("ValueError")
    ELSE Return([ solver |-> "pyomo",
                  status |-> engine.native,
                  objective_value |-> Some(0),
                  variables |-> VariableMap(model_json) ])

CommercialSolver_solve(model_json, params, engine) == Raise("NotImplementedError")

\* ---------------------------------------------------------------- selector

\* dict.get("type", "LP")
model_type_of(model_json) ==
    IF "type" \in DOMAIN model_json THEN model_json.type ELSE S_LP

\* (solver or ""): None and the empty str are both falsy.
solver_or_empty(solver) == IF solver = None THEN <<>> ELSE solver[1]

\* The alias sets and the type table of get_solver_adapter.
OrtoolsAliases == { S_ortools, S_scip, S_glop }

CvxpyAliases == { S_cvxpy, S_cvx }

PyomoAliases == { S_pyomo, S_ipopt }

OrtoolsTypes == { S_LP, S_MIP }

CvxpyTypes == { S_QP }

PyomoTypes == { S_NLP }

\* The adapter objects the selector constructs.
OrtoolsSolver == [ cls |-> "OrtoolsSolver", name |-> "ortools" ]

CvxpySolver == [ cls |-> "CvxpySolver", name |-> "cvxpy" ]

PyomoSolver == [ cls |-> "PyomoSolver", name |-> "pyomo" ]

CommercialSolver(solver_name) ==
    [ cls |-> "CommercialSolver", name |-> "commercial", solver_name |-> solver_name ]

\* The chain of tests of get_solver_adapter on the normalised arguments.
dispatch(solver_name, model_type) ==
    IF solver_name \in OrtoolsAliases \/ (solver_name = <<>> /\ model_type \in OrtoolsTypes)
    THEN OrtoolsSolver
    ELSE IF solver_name \in CvxpyAliases \/ (solver_name = <<>> /\ model_type \in CvxpyTypes)
    THEN CvxpySolver
    ELSE IF solver_name \in PyomoAliases \/ (solver_name = <<>> /\ model_type \in PyomoTypes)
    THEN PyomoSolver
    ELSE CommercialSolver(IF solver_name # <<>> THEN solver_name ELSE S_unknown)

\* get_solver_adapter comparing the solver name as given, without lower().
get_solver_adapter_CaseSensitive(solver, model_json) ==
    dispatch(solver_or_empty(solver), upper(model_type_of(model_json)))

\* get_solver_adapter reading the model's "name" where it should read "type".
get_solver_adapter_WrongKey(solver, model_json) ==
    dispatch(lower(solver_or_empty(solver)),
             upper(IF "name" \in DOMAIN model_json THEN model_json.name ELSE S_LP))

\* get_solver_adapter raising when neither the name nor the type matches.
get_solver_adapter_Strict(solver, model_json) ==
    LET adapter == dispatch(lower(solver_or_empty(solver)), upper(model_type_of(model_json)))
    IN  IF adapter.cls = "CommercialSolver" THEN Raise("ValueError") ELSE adapter

\* get_solver_adapter consulting the type table before the solver name.
get_solver_adapter_TypeFirst(solver, model_json) ==
    LET by_type == dispatch(<<>>, upper(model_type_of(model_json)))
    IN  IF by_type.cls # "CommercialSolver" THEN by_type
        ELSE dispatch(lower(solver_or_empty(solver)), upper(model_type_of(model_json)))

\* get_solver_adapter handing the placeholder the solver name as given.
get_solver_adapter_RawName(solver, model_json) ==
    LET adapter == dispatch(lower(solver_or_empty(solver)), upper(model_type_of(model_json)))
    IN  IF adapter.cls = "CommercialSolver" /\ solver_or_empty(solver) # <<>>
        THEN CommercialSolver(solver_or_empty(solver))
        ELSE adapter

\* get_solver_adapter comparing the model type as given, without upper().
get_solver_adapter_TypeAsGiven(solver, model_json) ==
    dispatch(lower(solver_or_empty(solver)), model_type_of(model_json))

get_solver_adapter(solver, model_json) ==
    LET model_type == upper(model_type_of(model_json))
        solver_name == lower(solver_or_empty(solver))
    IN  dispatch(solver_name, model_type)

\* The engine answers the environment can give to the selected adapter.
EngineOf(adapter) ==
    CASE adapter.cls = "OrtoolsSolver" -> OrtoolsEngine
      [] adapter.cls = "CvxpySolver" -> CvxpyEngine
      [] adapter.cls = "PyomoSolver" -> PyomoEngine
      [] OTHER -> CommercialEngine

adapter_solve(adapter, model_json, params, engine) ==
    CASE adapter.cls = "OrtoolsSolver" -> OrtoolsSolver_solve(model_json, params, engine)
      [] adapter.cls = "CvxpySolver" -> CvxpySolver_solve(model_json, params, engine)
      [] adapter.cls = "PyomoSolver" -> PyomoSolver_solve(model_json, params, engine)
      [] OTHER -> CommercialSolver_solve(model_json, params, engine)

\* params or {}
params_or_empty(params) == IF params = None THEN [ x \in {} |-> 0 ] ELSE params[1]

solve_model(model_json, solver, params, engine) ==
    LET adapter == get_solver_adapter(solver, model_json)
    IN  adapter_solve(adapter, model_json, params_or_empty(params), engine)

\* ------------------------------------------------------------------- state

\* Primary keys of the rows of table "runs".
RunKeys == { 1, 2 }

\* The task invocations the broker delivers; a redelivered job is another
\* invocation with the same run_id.
Tasks == { "t1", "t2" }

\* The calls of get_solver_adapter that are followed on their own.
Calls == { "c1", "c2" }

\* The worker processes that call solve_model on their own.
Workers == { "w1", "w2" }

\* No translate_to_model call has been made.
NoTranslation ==
    [ pc |-> "idle", request |-> None, attempts |-> 0, history |-> <<>>, raw |-> None,
      out |-> None ]

\* Arguments the task is invoked with.
RunIdInputs == { S_run_ \o << "1" >>, << "2" >>, << "7" >>, S_run_ \o << "x" >> }

\* <<model_json, solver, params>>: one invocation for each adapter the
\* selector has.
CallInputs ==
    { << [ name |-> << "m" >>, decision_variables |-> << [ name |-> "x" ] >> ], None, None >>,
      << [ type |-> S_nlp ], Some(<<>>), Some([ solver_name |-> "ipopt" ]) >>,
      << [ type |-> S_LP ], Some(S_CVXPY), Some([ x \in {} |-> 0 ]) >>,
      << [ type |-> S_LP ], Some(S_gurobi), None >> }

VARIABLES
    runs,       \* table "runs": key -> row (the committed database state)
    now,        \* the clock datetime.utcnow() reads
    pc,         \* per task: where solve_model_task stands
    call,       \* per task: the arguments of the invocation
    run_pk,     \* per task: the parsed primary key, or None
    result,     \* per task: the dict solve_model returned, or None
    session,    \* per task: the SQLAlchemy session: "none", "open", "closed"
    imported,   \* per task: whether its worker process imported solve_model
    sel,        \* per selector call: None, or the arguments and the adapter
    job,        \* per worker calling solve_model: None, or the call's locals
    llm,        \* the translate_to_model call: its request, attempts and outcome
    closes      \* per task: how many times session.close() has been called

vars == << runs, now, pc, call, run_pk, result, session, imported, sel, job, llm, closes >>

\* The solver name a Run is created with (the column is NOT NULL): the name
\* the request gave.
solver_as_created(k) == IF k = 1 THEN S_scip ELSE S_CVXPY

\* Column defaults of Run: status "pending", the nullable columns NULL.
NewRun(k) ==
    [ id |-> k, solver |-> solver_as_created(k), parameters_json |-> None,
      status |-> "pending", started_at |-> None, finished_at |-> None,
      objective_value |-> None ]

NoCall == [ run_id |-> <<>>, model_json |-> [ name |-> <<>> ], solver |-> None, params |-> None ]

Init ==
    /\ runs = [ k \in RunKeys |-> NewRun(k) ]
    /\ now = 0
    /\ pc = [ t \in Tasks |-> "idle" ]
    /\ call = [ t \in Tasks |-> NoCall ]
    /\ run_pk = [ t \in Tasks |-> None ]
    /\ result = [ t \in Tasks |-> None ]
    /\ session = [ t \in Tasks |-> "none" ]
    /\ imported \in [ Tasks -> BOOLEAN ]
    /\ sel = [ c \in Calls |-> None ]
    /\ job = [ w \in Workers |-> None ]
    /\ llm = NoTranslation
    /\ closes = [ t \in Tasks |-> 0 ]

\* datetime.utcnow() advances between any two steps.
Tick ==
    /\ now < MaxTime
    /\ now' = now + 1
    /\ UNCHANGED << runs, pc, call, run_pk, result, session, imported, sel, job, llm, closes >>

\* session.query(models.Run).filter(models.Run.id == pk).first()
RowFound(pk) == pk # None /\ pk[1] \in DOMAIN runs

\* int(run_id.replace("run_", "")) if run_id.startswith("run_") else int(run_id),
\* None when int() raises.
parse_run_id(run_id) ==
    IF startswith(run_id, S_run_) THEN int(remove(run_id, S_run_)) ELSE int(run_id)

\* TaskEnter with the session opened and run_pk parsed ahead of the guard.
TaskEnter_SessionFirst(t, run_id, model_json, solver, params, dispatcher_loaded) ==
    /\ pc[t] = "idle"
    /\ call' = [ call EXCEPT ![t] =
                   [ run_id |-> run_id, model_json |-> model_json,
                     solver |-> solver, params |-> params ] ]
    /\ session' = [ session EXCEPT ![t] = "open" ]
    /\ run_pk' = [ run_pk EXCEPT ![t] = parse_run_id(run_id) ]
    /\ pc' = [ pc EXCEPT ![t] = IF dispatcher_loaded THEN "begin" ELSE "raised" ]
    /\ UNCHANGED << runs, now, result, imported, sel, job, llm, closes >>

\* solve_model_task, lines 59-72: the import guard, the session, run_pk.
TaskEnter(t, run_id, model_json, solver, params, dispatcher_loaded) ==
    /\ pc[t] = "idle"
    /\ call' = [ call EXCEPT ![t] =
                   [ run_id |-> run_id, model_json |-> model_json,
                     solver |-> solver, params |-> params ] ]
    /\ IF ~dispatcher_loaded
       THEN /\ pc' = [ pc EXCEPT ![t] = "raised" ]
            /\ UNCHANGED << session, run_pk >>
       ELSE /\ pc' = [ pc EXCEPT ![t] = "begin" ]
            /\ session' = [ session EXCEPT ![t] = "open" ]
            /\ run_pk' = [ run_pk EXCEPT ![t] = parse_run_id(run_id) ]
    /\ UNCHANGED << runs, now, result, imported, sel, job, llm, closes >>

\* The row as the first commit leaves it (lines 79-81).
MarkRunning(row, t) == [ row EXCEPT !.status = "running", !.started_at = Some(t) ]

\* TaskBegin with the commit of "running" left until after the solve.
TaskBegin_Uncommitted(t) ==
    /\ pc[t] = "begin"
    /\ pc' = [ pc EXCEPT ![t] = "solve" ]
    /\ UNCHANGED << runs, now, call, run_pk, result, session, imported, sel, job, llm, closes >>

\* solve_model_task, lines 76-81: mark the run as running and commit.
TaskBegin(t) ==
    /\ pc[t] = "begin"
    /\ runs' = IF RowFound(run_pk[t])
               THEN [ runs EXCEPT ![run_pk[t][1]] = MarkRunning(@, now) ]
               ELSE runs
    /\ pc' = [ pc EXCEPT ![t] = "solve" ]
    /\ UNCHANGED << now, call, run_pk, result, session, imported, sel, job, llm, closes >>

\* TaskSolve with the selector writing the type it resolved, in upper case,
\* back into model_json.
TaskSolve_WritesType(t) ==
    /\ pc[t] = "solve"
    /\ \E engine \in EngineOf(get_solver_adapter(call[t].solver, call[t].model_json)) :
         LET out == solve_model(call[t].model_json, call[t].solver, call[t].params, engine)
         IN  IF out.raised
             THEN /\ pc' = [ pc EXCEPT ![t] = "raised" ]
                  /\ session' = [ session EXCEPT ![t] = "closed" ]
                  /\ closes' = [ closes EXCEPT ![t] = @ + 1 ]
                  /\ UNCHANGED result
             ELSE /\ pc' = [ pc EXCEPT ![t] = "finish" ]
                  /\ result' = [ result EXCEPT ![t] = Some(out.result) ]
                  /\ UNCHANGED << session, closes >>
    /\ call' = [ call EXCEPT ![t].model_json =
                   ("type" :> upper(model_type_of(call[t].model_json))) @@ call[t].model_json ]
    /\ UNCHANGED << runs, now, run_pk, imported, sel, job, llm >>

\* solve_model_task, lines 84-85 and 97-98: the solver runs; an exception
\* leaves through the finally clause, which closes the session.
TaskSolve(t) ==
    /\ pc[t] = "solve"
    /\ \E engine \in EngineOf(get_solver_adapter(call[t].solver, call[t].model_json)) :
         LET out == solve_model(call[t].model_json, call[t].solver, call[t].params, engine)
         IN  IF out.raised
             THEN /\ pc' = [ pc EXCEPT ![t] = "raised" ]
                  /\ session' = [ session EXCEPT ![t] = "closed" ]
                  /\ closes' = [ closes EXCEPT ![t] = @ + 1 ]
                  /\ UNCHANGED result
             ELSE /\ pc' = [ pc EXCEPT ![t] = "finish" ]
                  /\ result' = [ result EXCEPT ![t] = Some(out.result) ]
                  /\ UNCHANGED << session, closes >>
    /\ UNCHANGED << runs, now, call, run_pk, imported, sel, job, llm >>

\* The row as the second commit leaves it (lines 91-94):
\* result.get("status", "succeeded"), result.get("objective_value"), utcnow().
RecordResult(row, res, t) ==
    [ row EXCEPT !.status = IF "status" \in DOMAIN res THEN res.status ELSE "succeeded",
                 !.objective_value =
                     IF "objective_value" \in DOMAIN res THEN res.objective_value ELSE None,
                 !.finished_at = Some(t) ]

\* solve_model_task, lines 88-98: persist the result, return it, close.
TaskFinish(t) ==
    /\ pc[t] = "finish"
    /\ runs' = IF RowFound(run_pk[t])
               THEN [ runs EXCEPT ![run_pk[t][1]] = RecordResult(@, result[t][1], now) ]
               ELSE runs
    /\ pc' = [ pc EXCEPT ![t] = "done" ]
    /\ session' = [ session EXCEPT ![t] = "closed" ]
    /\ closes' = [ closes EXCEPT ![t] = @ + 1 ]
    /\ UNCHANGED << now, call, run_pk, result, imported, sel, job, llm >>

\* TaskRaises with the session closed in an except clause as well as in the
\* finally clause.
TaskRaises_ClosedTwice(t) ==
    /\ pc[t] \in { "begin", "finish" }
    /\ run_pk[t] # None
    /\ pc' = [ pc EXCEPT ![t] = "db_raised" ]
    /\ session' = [ session EXCEPT ![t] = "closed" ]
    /\ closes' = [ closes EXCEPT ![t] = @ + 2 ]
    /\ UNCHANGED << runs, now, call, run_pk, result, imported, sel, job, llm >>

\* solve_model_task, lines 77, 81, 89, 94 and 97-98: a query or a commit
\* raises; nothing is committed and the exception leaves through the
\* finally clause, which closes the session.
TaskRaises(t) ==
    /\ pc[t] \in { "begin", "finish" }
    /\ run_pk[t] # None
    /\ pc' = [ pc EXCEPT ![t] = "db_raised" ]
    /\ session' = [ session EXCEPT ![t] = "closed" ]
    /\ closes' = [ closes EXCEPT ![t] = @ + 1 ]
    /\ UNCHANGED << runs, now, call, run_pk, result, imported, sel, job, llm >>

\* The worker process is lost while the solver runs: nothing more of the
\* task executes, the finally clause included.
WorkerLost(t) ==
    /\ pc[t] = "solve"
    /\ pc' = [ pc EXCEPT ![t] = "crashed" ]
    /\ UNCHANGED << runs, now, call, run_pk, result, session, imported, sel, job, llm, closes >>

\* A cancellation request: a pending Run goes directly to canceled.
Cancel(k) ==
    /\ runs[k].status = "pending"
    /\ runs' = [ runs EXCEPT ![k].status = "canceled" ]
    /\ UNCHANGED << now, pc, call, run_pk, result, session, imported, sel, job, llm, closes >>

\* ------------------------------------------------- selector calls on their own

\* Every spelling of s in upper- and lower-case letters.
RECURSIVE CaseVariants(_)
CaseVariants(s) ==
    IF s = <<>> THEN { <<>> }
    ELSE { << c >> \o r : c \in { lower(<< s[1] >>)[1], upper(<< s[1] >>)[1] },
                          r \in CaseVariants(Tail(s)) }

OrtoolsSpellings == CaseVariants(S_ortools)

CvxSpellings == CaseVariants(S_cvx)

\* The solver argument: unset, empty, aliases in any letter case, unknown names.
SelSolverInputs ==
    { None, Some(<<>>) }
    \cup { Some(v) : v \in OrtoolsSpellings \cup CvxSpellings }
    \cup { Some(v) : v \in { S_scip, S_glop, S_cvxpy, S_CVXPY, S_pyomo, S_ipopt, S_gurobi, S_Gurobi } }

\* The "type" values: the six enum values, a lower-case one, an unknown one.
SelTypes == { S_LP, S_MIP, S_QP, S_NLP, S_BO, S_CUSTOM, S_lp, S_Lp, S_XYZ }

EnumTypes == { S_LP, S_MIP, S_QP, S_NLP, S_BO, S_CUSTOM }

SelNames == { S_m, S_qp }

\* The model argument: with and without a "type" key, under two names.
SelModelInputs ==
    { [ type |-> ty, name |-> n ] : ty \in SelTypes, n \in SelNames }
    \cup { [ name |-> n ] : n \in SelNames }

\* Call c1 takes any arguments; call c2 selects again by model type alone.
SelInputs(c) ==
    IF c = "c1" THEN SelSolverInputs \X SelModelInputs
    ELSE { None, Some(<<>>) } \X SelModelInputs

\* One call of get_solver_adapter(solver, model_json).
SelectCall(c, solver, model_json) ==
    /\ sel[c] = None
    /\ sel' = [ sel EXCEPT ![c] =
                  Some([ solver |-> solver, model_json |-> model_json,
                         adapter |-> get_solver_adapter(solver, model_json) ]) ]
    /\ UNCHANGED << runs, now, pc, call, run_pk, result, session, imported, job, llm, closes >>

SelectNext ==
    \E c \in Calls :
        /\ sel[c] = None
        /\ \E in \in SelInputs(c) : SelectCall(c, in[1], in[2])

InitSelect == Init /\ imported = [ t \in Tasks |-> TRUE ]

\* Calls of the selector alone, no task running.
SpecSelect == InitSelect /\ [][SelectNext]_vars

\* ------------------------------------------------ solve_model calls on their own

\* A dict with the keys of both; used to write entries with optional keys.
Entry(name, lo, up, integrality) == name @@ lo @@ up @@ integrality

\* "lower": absent, null, a positive and a negative number.
LowerInputs == { <<>> } \cup { "lower" :> v : v \in { None, Some(2), Some(0 - 3) } }

\* "upper": absent or a number.
UpperInputs == { <<>>, "upper" :> Some(5) }

\* "integrality": absent or one of the three enum values.
IntegralityInputs ==
    { <<>> } \cup { "integrality" :> v : v \in { "continuous", "integer", "binary" } }

\* One entry named x with every combination of the optional keys.
VarInputs ==
    { Entry("name" :> "x", l, u, g) :
        l \in LowerInputs, u \in UpperInputs, g \in IntegralityInputs }

\* Entries that are put in pairs: the name x twice, and another name.
PairVarInputs ==
    { [ name |-> "x", lower |-> Some(2), upper |-> Some(5), integrality |-> "integer" ],
      [ name |-> "x" ],
      [ name |-> "y", integrality |-> "binary" ] }

\* decision_variables: one entry, two entries, an entry without a name.
DecisionVariableInputs ==
    { << v >> : v \in VarInputs }
    \cup { << v, u >> : v \in PairVarInputs, u \in PairVarInputs }
    \cup { << [ lower |-> Some(2) ] >> }

\* Models of the three types that have a default adapter.
SolveModelInputs ==
    { [ type |-> ty ] : ty \in { S_LP, S_QP, S_NLP } }
    \cup { [ type |-> ty, decision_variables |-> dvs ] :
             ty \in { S_LP, S_QP, S_NLP }, dvs \in DecisionVariableInputs }

\* <<model_json, solver, params>>: worker w1 solves any model by its type;
\* worker w2 solves one of three other requests.
SolveInputs(w) ==
    IF w = "w1" THEN { << m, None, None >> : m \in SolveModelInputs }
    ELSE { << [ type |-> S_LP,
                decision_variables |-> << [ name |-> "y", integrality |-> "integer" ] >> ],
              None, Some([ x \in {} |-> 0 ]) >>,
           << [ type |-> S_LP,
                decision_variables |-> << [ name |-> "z", upper |-> Some(5) ] >> ],
              Some(S_ipopt), Some([ solver_name |-> "ipopt" ]) >>,
           << [ type |-> S_QP ], Some(S_gurobi), None >> }

\* solve_model, lines 268-269: the adapter is selected for the arguments.
SolveCall(w, model_json, solver, params) ==
    /\ job[w] = None
    /\ job' = [ job EXCEPT ![w] =
                  Some([ pc |-> "selected", model_json |-> model_json, solver |-> solver,
                         params |-> params,
                         adapter |-> get_solver_adapter(solver, model_json),
                         engine |-> None, made |-> <<>>, variables |-> <<>>,
                         out |-> None ]) ]
    /\ UNCHANGED << runs, now, pc, call, run_pk, result, session, imported, sel, llm, closes >>

\* solve() gets as far as creating its variables: the binding is imported,
\* the engine instance exists and every entry has a name.
ReachesSolve(adapter, model_json, engine) ==
    /\ adapter.cls # "CommercialSolver"
    /\ engine.installed
    /\ adapter.cls = "OrtoolsSolver" => engine.created
    /\ NamesPresent(decision_variables_of(model_json))

\* The result dict with "variables" read from the dict the call built.
WithVariables(out, variables) ==
    IF out.raised THEN out ELSE Return([ out.result EXCEPT !.variables = variables ])

\* SolveBuild with `variables` a dict of the module, shared by the workers.
SolveBuild_SharedVariables(w, engine) ==
    /\ job[w] # None
    /\ job[w][1].pc = "selected"
    /\ LET j == job[w][1]
           shared == UNION { IF job[v] = None THEN {} ELSE DOMAIN job[v][1].variables :
                             v \in Workers \ { w } }
           own == VariableMap(j.model_json)
       IN  IF ReachesSolve(j.adapter, j.model_json, engine)
           THEN job' = [ job EXCEPT ![w] =
                           Some([ j EXCEPT !.pc = "built", !.engine = Some(engine),
                                           !.made = EngineVars(j.adapter.cls, j.model_json),
                                           !.variables =
                                               [ n \in DOMAIN own \cup shared |->
                                                   IF n \in DOMAIN own THEN own[n] ELSE 1 ] ]) ]
           ELSE job' = [ job EXCEPT ![w] =
                           Some([ j EXCEPT !.pc = "done", !.engine = Some(engine),
                                           !.out = Some(adapter_solve(j.adapter, j.model_json,
                                                            params_or_empty(j.params), engine)) ]) ]
    /\ UNCHANGED << runs, now, pc, call, run_pk, result, session, imported, sel, llm, closes >>

\* solve(), up to the placeholder objective: the engine is created and one
\* variable per entry is handed to it, or the call raises before that.
SolveBuild(w, engine) ==
    /\ job[w] # None
    /\ job[w][1].pc = "selected"
    /\ LET j == job[w][1]
       IN  IF ReachesSolve(j.adapter, j.model_json, engine)
           THEN job' = [ job EXCEPT ![w] =
                           Some([ j EXCEPT !.pc = "built", !.engine = Some(engine),
                                           !.made = EngineVars(j.adapter.cls, j.model_json),
                                           !.variables = VariableMap(j.model_json) ]) ]
           ELSE job' = [ job EXCEPT ![w] =
                           Some([ j EXCEPT !.pc = "done", !.engine = Some(engine),
                                           !.out = Some(adapter_solve(j.adapter, j.model_json,
                                                            params_or_empty(j.params), engine)) ]) ]
    /\ UNCHANGED << runs, now, pc, call, run_pk, result, session, imported, sel, llm, closes >>

\* solve(), from the engine's Solve() to the return of the result dict.
SolveRun(w) ==
    /\ job[w] # None
    /\ job[w][1].pc = "built"
    /\ LET j == job[w][1]
       IN  job' = [ job EXCEPT ![w] =
                      Some([ j EXCEPT !.pc = "done",
                                      !.out = Some(WithVariables(
                                                  adapter_solve(j.adapter, j.model_json,
                                                      params_or_empty(j.params), j.engine[1]),
                                                  j.variables)) ]) ]
    /\ UNCHANGED << runs, now, pc, call, run_pk, result, session, imported, sel, llm, closes >>

SolveNext ==
    \/ \E w \in Workers :
         /\ job[w] = None
         /\ \E in \in SolveInputs(w) : SolveCall(w, in[1], in[2], in[3])
    \/ \E w \in Workers :
         /\ job[w] # None
         /\ \E engine \in EngineOf(job[w][1].adapter) : SolveBuild(w, engine)
    \/ \E w \in Workers : SolveRun(w)

\* Calls of solve_model by two workers, no task running.
SpecSolve == InitSelect /\ [][SolveNext]_vars

\* --------------------------------------------------- translate_to_model calls

\* stop_after_attempt(3)
MaxAttempts == 3

\* TranslationRequest: prompt, domain (optional), output_format.
RequestInputs ==
    { [ prompt |-> p, domain |-> d, output_format |-> "json" ] :
        p \in { "minimise cost", "schedule shifts" }, d \in { None, Some("scheduling") } }

\* The contents a completion can carry, and what json.loads makes of each:
\* a model with every required key, a model without "type", a JSON list,
\* and text that is not JSON.
S_full == "{name,type,decision_variables,objective,constraints}"

S_partial == "{name,objective}"

S_list == "[1]"

S_prose == "Here is your model"

ContentInputs == { S_full, S_partial, S_list, S_prose }

\* What one call of openai.ChatCompletion.create does: it raises, or it
\* returns a response; a response without choices makes line 71 raise.
ProviderAnswers ==
    { [ ok |-> FALSE, exc |-> e ] : e \in { "APIError", "Timeout", "KeyError" } }
    \cup { [ ok |-> TRUE, content |-> c ] : c \in ContentInputs }

\* json.loads on the contents above.
json_loads(raw) ==
    CASE raw = S_full ->
           Return([ k \in { "name", "type", "decision_variables", "objective",
                            "constraints" } |-> "v" ])
      [] raw = S_partial -> Return([ k \in { "name", "objective" } |-> "v" ])
      [] raw = S_list -> Return(<< 1 >>)
      [] OTHER -> Raise("JSONDecodeError")

required_keys == { "name", "type", "decision_variables", "objective", "constraints" }

\* translate_to_model, lines 114-125, on the content _call_openai returned.
parse_model(raw) ==
    LET loaded == json_loads(raw)
    IN  IF loaded.raised THEN Raise("RuntimeError")
        ELSE IF loaded.result = << 1 >> THEN Raise("AttributeError")
        ELSE IF required_keys \ DOMAIN loaded.result # {} THEN Raise("RuntimeError")
        ELSE Return(loaded.result)

\* translate_to_model, lines 89-106: the messages are built.
Translate(request) ==
    /\ llm.pc = "idle"
    /\ llm' = [ llm EXCEPT !.pc = "calling", !.request = Some(request) ]
    /\ UNCHANGED << runs, now, pc, call, run_pk, result, session, imported, sel, job, closes >>

\* Attempt stopping only after the attempt that follows the third.
Attempt_OneMore(answer) ==
    /\ llm.pc = "calling"
    /\ LET made == llm.attempts + 1
           history == Append(llm.history, answer)
       IN  IF answer.ok
           THEN llm' = [ llm EXCEPT !.pc = "parse", !.attempts = made, !.history = history,
                                    !.raw = Some(answer.content) ]
           ELSE IF made > MaxAttempts
           THEN llm' = [ llm EXCEPT !.pc = "done", !.attempts = made, !.history = history,
                                    !.out = Some(Raise("RuntimeError")) ]
           ELSE llm' = [ llm EXCEPT !.attempts = made, !.history = history ]
    /\ UNCHANGED << runs, now, pc, call, run_pk, result, session, imported, sel, job, closes >>

\* One attempt of _call_openai under @retry (lines 58-71): a returned
\* content ends the retrying; a raised exception is retried until
\* stop_after_attempt(3), then RetryError reaches translate_to_model, which
\* raises RuntimeError (lines 108-111).
Attempt(answer) ==
    /\ llm.pc = "calling"
    /\ LET made == llm.attempts + 1
           history == Append(llm.history, answer)
       IN  IF answer.ok
           THEN llm' = [ llm EXCEPT !.pc = "parse", !.attempts = made, !.history = history,
                                    !.raw = Some(answer.content) ]
           ELSE IF made >= MaxAttempts
           THEN llm' = [ llm EXCEPT !.pc = "done", !.attempts = made, !.history = history,
                                    !.out = Some(Raise("RuntimeError")) ]
           ELSE llm' = [ llm EXCEPT !.attempts = made, !.history = history ]
    /\ UNCHANGED << runs, now, pc, call, run_pk, result, session, imported, sel, job, closes >>

\* translate_to_model, lines 113-125: parse and check the content.
Parse ==
    /\ llm.pc = "parse"
    /\ llm' = [ llm EXCEPT !.pc = "done", !.out = Some(parse_model(llm.raw[1])) ]
    /\ UNCHANGED << runs, now, pc, call, run_pk, result, session, imported, sel, job, closes >>

TranslateNext ==
    \/ \E request \in RequestInputs : Translate(request)
    \/ \E answer \in ProviderAnswers : Attempt(answer)
    \/ Parse

\* One call of translate_to_model, no task running.
SpecTranslate == InitSelect /\ [][TranslateNext]_vars

\* The steps of solve_model_task invocations, the clock and worker loss.
Execute ==
    \/ Tick
    \/ \E t \in Tasks, run_id \in RunIdInputs, c \in CallInputs :
         TaskEnter(t, run_id, c[1], c[2], c[3], imported[t])
    \/ \E t \in Tasks : TaskBegin(t)
    \/ \E t \in Tasks : TaskSolve(t)
    \/ \E t \in Tasks : TaskFinish(t)
    \/ \E t \in Tasks : TaskRaises(t)
    \/ \E t \in Tasks : WorkerLost(t)

Next ==
    \/ Execute
    \/ \E k \in RunKeys : Cancel(k)

\* Task executions together with cancellation requests.
Spec == Init /\ [][Next]_vars

\* Task executions alone: every write to a Run is one of solve_model_task.
SpecExecute == Init /\ [][Execute]_vars

\* ------------------------------------------------------------------ claims

\* The statuses the Run lifecycle names (models.py, comment on Run.status).
Terminal == { "succeeded", "failed", "canceled" }

RunStatuses == { "pending", "running" } \cup Terminal

\* The row a task addresses; used only where RowFound(run_pk[t]).
RowOf(t) == runs[run_pk[t][1]]

\* No other invocation addresses the Run of task t.
Sole(t) == \A u \in Tasks \ { t } : run_pk[u] # run_pk[t]

\* C1: under any sequence of task executions, every change a task makes to
\* a Run's persisted status is a step of the path
\* pending -> running -> {succeeded, failed, canceled}.
C1_StatusPath ==
    [][ \A k \in RunKeys :
          (pc' # pc /\ runs'[k].status # runs[k].status)
          => \/ (runs[k].status = "pending" /\ runs'[k].status = "running")
             \/ (runs[k].status = "running" /\ runs'[k].status \in Terminal) ]_vars

\* C2: a task that holds a result for a Run to which another worker has
\* committed a result while the task was executing (the row is no longer
\* "running" although this task marked it so) does not overwrite that Run.
C2_NoLostUpdate ==
    [][ \A t \in Tasks :
          (/\ pc[t] = "finish"
           /\ pc'[t] = "done"
           /\ RowFound(run_pk[t])
           /\ RowOf(t).status # "running")
          => runs'[run_pk[t][1]] = runs[run_pk[t][1]] ]_vars

\* C3: once a Run is succeeded, failed or canceled, no step changes any of
\* its fields.
C3_TerminalImmutable ==
    [][ \A k \in RunKeys : runs[k].status \in Terminal => runs'[k] = runs[k] ]_vars

\* The task has left the solver call without a result: the adapter raised.
AdapterRaised(t) ==
    /\ pc[t] \in { "raised", "done" }
    /\ session[t] # "none"
    /\ result[t] = None

\* C4: when the adapter raises during the execution of a pending Run, the
\* task returns normally and the Run is failed with finished_at recorded.
C4_AdapterErrorContained ==
    \A t \in Tasks :
        (AdapterRaised(t) /\ RowFound(run_pk[t]) /\ Sole(t))
        => /\ pc[t] = "done"
           /\ RowOf(t).status = "failed"
           /\ RowOf(t).finished_at # None

\* C5: after the execution of a pending Run whose adapter returned optimal
\* or feasible with objective value v, the Run is succeeded with
\* objective_value v and finished_at set, not before started_at.
C5_SuccessRecorded ==
    \A t \in Tasks :
        (/\ pc[t] = "done"
         /\ RowFound(run_pk[t])
         /\ Sole(t)
         /\ result[t][1].status \in { "optimal", "feasible" })
        => /\ RowOf(t).status = "succeeded"
           /\ RowOf(t).objective_value = result[t][1].objective_value
           /\ RowOf(t).finished_at # None
           /\ RowOf(t).started_at # None
           /\ RowOf(t).finished_at[1] >= RowOf(t).started_at[1]

\* C6: after the execution of a pending Run whose adapter returned
\* infeasible, unbounded or error, the Run is failed with finished_at set
\* and objective_value unset.
C6_FailureRecorded ==
    \A t \in Tasks :
        (/\ pc[t] = "done"
         /\ RowFound(run_pk[t])
         /\ Sole(t)
         /\ result[t][1].status \in { "infeasible", "unbounded", "error" })
        => /\ RowOf(t).status = "failed"
           /\ RowOf(t).finished_at # None
           /\ RowOf(t).objective_value = None

C8_RedeliveryDetected ==
    [][ \A t \in Tasks :
          (/\ pc[t] = "begin"
           /\ pc'[t] = "solve"
           /\ RowFound(run_pk[t])
           /\ RowOf(t).status = "running"
           /\ \E u \in Tasks \ { t } : run_pk[u] = run_pk[t] /\ pc[u] = "crashed")
          => \/ runs'[run_pk[t][1]].status = "failed"
             \/ runs'[run_pk[t][1]] = runs[run_pk[t][1]] ]_vars

\* C9: a Run canceled while pending never has status running afterwards.
C9_CanceledNeverRuns ==
    [][ \A k \in RunKeys :
          runs[k].status = "canceled" => runs'[k].status # "running" ]_vars

\* C10: the persisted status of every Run is one of pending, running,
\* succeeded, failed, canceled.
C10_StatusInEnum == \A k \in RunKeys : runs[k].status \in RunStatuses

\* C11: in every persisted state of a Run, started_at is unset while the
\* status is pending, finished_at is unset while it is pending or running,
\* running implies started_at set, succeeded or failed imply finished_at set.
C11_StatusTimestamps ==
    \A k \in RunKeys :
        /\ runs[k].status = "pending" => runs[k].started_at = None
        /\ runs[k].status \in { "pending", "running" } => runs[k].finished_at = None
        /\ runs[k].status = "running" => runs[k].started_at # None
        /\ runs[k].status \in { "succeeded", "failed" } => runs[k].finished_at # None

\* C12: a task whose run_id names no Run row, or cannot be parsed, gets no
\* result from the adapter and does not return one.
C12_MissingRunNotSolved ==
    \A t \in Tasks : pc[t] \in { "finish", "done" } => RowFound(run_pk[t])

\* C13: when the task has ended because the adapter call failed, with no
\* attempt left to make, the Run is marked failed.
C13_FailedAfterAttempts ==
    \A t \in Tasks :
        (pc[t] = "raised" /\ session[t] = "closed" /\ RowFound(run_pk[t]) /\ Sole(t))
        => RowOf(t).status = "failed"

\* C14: a task invoked in a worker that could not import solve_model raises
\* at once: it opens no session and no Run is read or written.
C14_ImportGuard ==
    [][ \A t \in Tasks :
          (pc[t] = "idle" /\ pc'[t] # "idle" /\ ~imported[t])
          => /\ pc'[t] = "raised"
             /\ session'[t] = "none"
             /\ run_pk'[t] = None
             /\ runs' = runs ]_vars

\* C14 witness: the guard has raised in a task whose run_id names a Run.
C14_Witness ==
    \E t \in Tasks :
        /\ ~imported[t]
        /\ pc[t] = "raised"
        /\ session[t] = "none"
        /\ RowFound(parse_run_id(call[t].run_id))
        /\ runs[parse_run_id(call[t].run_id)[1]] = NewRun(parse_run_id(call[t].run_id)[1])

\* The selector calls made so far.
Made == { sel[c][1] : c \in { d \in Calls : sel[d] # None } }

\* The call gave no explicit solver: the argument is unset or empty.
NoExplicit(m) == m.solver = None \/ m.solver = Some(<<>>)

\* The value returned is one of the four adapters.
IsAdapter(a) ==
    /\ "cls" \in DOMAIN a
    /\ a.cls \in { "OrtoolsSolver", "CvxpySolver", "PyomoSolver", "CommercialSolver" }

\* C15: a call with explicit solver "ortools", in any letter case, returns
\* the OR-Tools adapter whatever the model type.
C15_ExplicitOrtools ==
    \A m \in Made :
        (m.solver # None /\ m.solver[1] \in OrtoolsSpellings)
        => m.adapter = OrtoolsSolver

\* C15 witness: "ortools" in mixed case with a type the table does not map.
C15_Witness ==
    \E m \in Made :
        /\ m.solver # None
        /\ m.solver[1] \in OrtoolsSpellings \ { S_ortools }
        /\ "type" \in DOMAIN m.model_json
        /\ m.model_json.type \in { S_BO, S_CUSTOM, S_XYZ }
        /\ m.adapter = OrtoolsSolver

\* C16: two calls with no explicit solver and the same model type return
\* the same adapter, whatever the other fields of the models.
C16_DefaultByTypeOnly ==
    \A m, n \in Made :
        (/\ NoExplicit(m)
         /\ NoExplicit(n)
         /\ model_type_of(m.model_json) = model_type_of(n.model_json))
        => m.adapter = n.adapter

\* C16 witness: two such calls on models that differ in another field.
C16_Witness ==
    /\ sel["c1"] # None
    /\ sel["c2"] # None
    /\ NoExplicit(sel["c1"][1])
    /\ NoExplicit(sel["c2"][1])
    /\ sel["c1"][1].solver # sel["c2"][1].solver
    /\ "type" \in DOMAIN sel["c1"][1].model_json
    /\ "type" \in DOMAIN sel["c2"][1].model_json
    /\ sel["c1"][1].model_json.type = sel["c2"][1].model_json.type
    /\ sel["c1"][1].model_json.name # sel["c2"][1].model_json.name
    /\ sel["c1"][1].adapter = sel["c2"][1].adapter

\* Neither the solver name nor, without one, the model type matches.
NothingMatches(m) ==
    LET name == lower(solver_or_empty(m.solver))
        type == upper(model_type_of(m.model_json))
    IN  /\ name \notin OrtoolsAliases \cup CvxpyAliases \cup PyomoAliases
        /\ name # <<>> \/ type \notin OrtoolsTypes \cup CvxpyTypes \cup PyomoTypes

\* C17: every call returns an adapter; it is the placeholder exactly when
\* nothing matches, and then the failure comes from the placeholder's solve.
C17_SelectNeverFails ==
    \A m \in Made :
        /\ IsAdapter(m.adapter)
        /\ NothingMatches(m) <=> m.adapter.cls = "CommercialSolver"
        /\ NothingMatches(m) =>
             \A e \in EngineOf(m.adapter) :
                 adapter_solve(m.adapter, m.model_json, None, e) = Raise("NotImplementedError")

\* C17 witness: calls resolved to the placeholder by an unknown name and by
\* an unmapped type.
C17_Witness ==
    /\ \E m \in Made : m.solver = Some(S_gurobi) /\ m.adapter = CommercialSolver(S_gurobi)
    /\ \E m \in Made : NoExplicit(m) /\ m.adapter = CommercialSolver(S_unknown)

\* C18: an explicit solver name decides alone, compared without regard to
\* case against the three alias sets; the model type decides only when no
\* solver is given; the alias sets are pairwise disjoint.
C18_ResolutionOrder ==
    /\ OrtoolsAliases \cap CvxpyAliases = {}
    /\ OrtoolsAliases \cap PyomoAliases = {}
    /\ CvxpyAliases \cap PyomoAliases = {}
    /\ \A m \in Made :
         LET name == lower(solver_or_empty(m.solver))
             type == model_type_of(m.model_json)
         IN  /\ name \in { S_ortools, S_scip, S_glop } => m.adapter.cls = "OrtoolsSolver"
             /\ name \in { S_cvxpy, S_cvx } => m.adapter.cls = "CvxpySolver"
             /\ name \in { S_pyomo, S_ipopt } => m.adapter.cls = "PyomoSolver"
             /\ (name # <<>> /\ name \notin { S_ortools, S_scip, S_glop, S_cvxpy, S_cvx,
                                             S_pyomo, S_ipopt })
                => m.adapter.cls = "CommercialSolver"
             /\ (NoExplicit(m) /\ type \in { S_LP, S_MIP }) => m.adapter.cls = "OrtoolsSolver"
             /\ (NoExplicit(m) /\ type = S_QP) => m.adapter.cls = "CvxpySolver"
             /\ (NoExplicit(m) /\ type = S_NLP) => m.adapter.cls = "PyomoSolver"

\* C18 witness: an alias of one adapter given with a type of another, and a
\* call decided by the type.
C18_Witness ==
    /\ \E m \in Made :
         /\ m.solver # None
         /\ m.solver[1] \in CvxSpellings \ { S_cvx }
         /\ "type" \in DOMAIN m.model_json
         /\ m.model_json.type = S_NLP
         /\ m.adapter.cls = "CvxpySolver"
    /\ \E m \in Made :
         /\ NoExplicit(m)
         /\ "type" \in DOMAIN m.model_json
         /\ m.model_json.type = S_NLP
         /\ m.adapter.cls = "PyomoSolver"

\* C19: with no explicit solver, each of the six enum types is matched by
\* the type table and does not fall through to the placeholder.
C19_TypeTableTotal ==
    \A m \in Made :
        (NoExplicit(m) /\ "type" \in DOMAIN m.model_json /\ m.model_json.type \in EnumTypes)
        => m.adapter.cls # "CommercialSolver"

\* The statuses a solve result may carry.
NormalizedStatuses == { "optimal", "feasible", "infeasible", "unbounded", "error" }

\* C20: the status of every result an adapter returns is one of optimal,
\* feasible, infeasible, unbounded, error.
C20_StatusNormalized ==
    \A t \in Tasks : result[t] # None => result[t][1].status \in NormalizedStatuses

\* The solve_model calls whose solve() has ended.
Ended == { job[w][1] : w \in { v \in Workers : job[v] # None /\ job[v][1].pc = "done" } }

\* The solve_model calls whose solve() has created its variables.
Built == { job[w][1] : w \in { v \in Workers : job[v] # None /\ job[v][1].made # <<>> } }

\* The adapter's engine binding is not available to the call.
Unavailable(j) ==
    \/ ~j.engine[1].installed
    \/ j.adapter.cls \in { "OrtoolsSolver", "PyomoSolver" } /\ ~j.engine[1].created

\* What the engine found, when it found the problem infeasible or unbounded.
NativeOutcome(j) ==
    IF j.engine[1].native \in { "INFEASIBLE", "infeasible" } THEN "infeasible"
    ELSE IF j.engine[1].native \in { "UNBOUNDED", "unbounded" } THEN "unbounded"
    ELSE "other"

\* C21: with its engine binding unavailable an adapter's solve raises; when
\* the solve ran and the engine found the problem infeasible or unbounded,
\* solve returns a result whose status is that outcome.
C21_UnavailableRaisesOutcomeReturned ==
    \A j \in Ended :
        /\ (j.adapter.cls # "CommercialSolver" /\ Unavailable(j)) => j.out[1].raised
        /\ (/\ ReachesSolve(j.adapter, j.model_json, j.engine[1])
            /\ ~Unavailable(j)
            /\ NativeOutcome(j) # "other")
           => /\ ~j.out[1].raised
              /\ j.out[1].result.status = NativeOutcome(j)

\* Two entries of decision_variables carry the same name.
DuplicateNames(dvs) ==
    \E a, b \in 1..Len(dvs) :
        a # b /\ "name" \in DOMAIN dvs[a] /\ "name" \in DOMAIN dvs[b] /\ dvs[a].name = dvs[b].name

\* C22: a model with two decision variables of the same name makes the
\* adapter's solve raise instead of returning a result.
C22_DuplicateNamesRaise ==
    \A j \in Ended :
        DuplicateNames(decision_variables_of(j.model_json)) => j.out[1].raised

\* A bound of an entry is set: the key is present and not null.
IsSet(var, key) == key \in DOMAIN var /\ var[key] # None

\* The bounds of a variable as the engine holds it; None is no bound.
EngineLower(ev) ==
    CASE ev.ctor \in { "IntVar", "NumVar" } -> Some(ev.lb)
      [] ev.ctor = "Var" -> Some(ev.bounds[1])
      [] OTHER -> None

EngineUpper(ev) ==
    CASE ev.ctor \in { "IntVar", "NumVar" } -> IF ev.ub = PosInf THEN None ELSE Some(ev.ub)
      [] ev.ctor = "Var" -> ev.bounds[2]
      [] OTHER -> None

\* C23: every variable handed to an engine has lower = the entry's lower if
\* set, else 0, and upper = the entry's upper if set, else no upper bound.
C23_BoundsHandedOver ==
    \A j \in Built :
        \A i \in 1..Len(j.made) :
            LET var == decision_variables_of(j.model_json)[i]
            IN  /\ EngineLower(j.made[i]) =
                       IF IsSet(var, "lower") THEN var.lower ELSE Some(0)
                /\ EngineUpper(j.made[i]) =
                       IF IsSet(var, "upper") THEN var.upper ELSE None

\* The engine holds the variable as an integer one.
IsIntegerVar(ev) ==
    CASE ev.ctor = "IntVar" -> TRUE
      [] ev.ctor = "NumVar" -> FALSE
      [] ev.ctor = "Var" -> ev.within = "Integers"
      [] OTHER -> ev.integer

\* C24: an entry declared integer or binary is created as an integer
\* variable, a binary one with bounds [0,1], and any other as continuous.
C24_IntegralityClassified ==
    \A j \in Built :
        \A i \in 1..Len(j.made) :
            LET var == decision_variables_of(j.model_json)[i]
                declared == integrality_of(var)
            IN  /\ IsIntegerVar(j.made[i]) <=> declared \in { "integer", "binary" }
                /\ declared = "binary" =>
                     /\ EngineLower(j.made[i]) = Some(0)
                     /\ EngineUpper(j.made[i]) = Some(1)

\* C27: whatever the other worker does in between, a worker's adapter, the
\* variables it creates and the outcome of its solve are those of a call of
\* solve_model made alone with the same arguments and the same engine answer.
C27_NoSharedSolveState ==
    \A w \in Workers :
        job[w] # None =>
            LET j == job[w][1]
            IN  /\ j.adapter = get_solver_adapter(j.solver, j.model_json)
                /\ j.pc = "built" =>
                     /\ j.made = EngineVars(j.adapter.cls, j.model_json)
                     /\ j.variables = VariableMap(j.model_json)
                /\ j.pc = "done" =>
                     j.out[1] = solve_model(j.model_json, j.solver, j.params, j.engine[1])

\* C27 witness: one worker has its result while the other, which created
\* variables of other names, is still inside its solve.
C27_Witness ==
    /\ job["w1"] # None
    /\ job["w2"] # None
    /\ job["w1"][1].pc = "done"
    /\ job["w1"][1].made # <<>>
    /\ ~job["w1"][1].out[1].raised
    /\ job["w2"][1].pc = "built"
    /\ DOMAIN job["w2"][1].variables # {}
    /\ DOMAIN job["w1"][1].variables \cap DOMAIN job["w2"][1].variables = {}

\* C25: selecting the adapter and solving leave the caller's model_json and
\* params as they were handed in, whether solve returns or raises.
C25_ArgumentsUnchanged ==
    [][ \A t \in Tasks :
          pc[t] # "idle"
          => /\ call'[t].model_json = call[t].model_json
             /\ call'[t].params = call[t].params ]_vars

\* C25 witness: one task's solve has returned and another's has raised, for
\* calls that carry decision variables and a params mapping.
C25_Witness ==
    \E t, u \in Tasks :
        /\ pc[t] = "finish"
        /\ "decision_variables" \in DOMAIN call[t].model_json
        /\ pc[u] = "raised"
        /\ session[u] = "closed"
        /\ call[u].params # None

\* The name attribute of an adapter, as a str.
name_of(adapter) ==
    CASE adapter.cls = "OrtoolsSolver" -> S_ortools
      [] adapter.cls = "CvxpySolver" -> S_cvxpy
      [] adapter.cls = "PyomoSolver" -> S_pyomo
      [] OTHER -> << "c", "o", "m", "m", "e", "r", "c", "i", "a", "l" >>

\* C26: once a task has marked its Run as running, the Run's solver field is
\* the name of the adapter the selector resolves for the task, and its id
\* and parameters are those it was created with.
C26_SolverFieldResolved ==
    \A t \in Tasks :
        (pc[t] \in { "solve", "finish", "done" } /\ RowFound(run_pk[t]))
        => LET row == runs[run_pk[t][1]]
           IN  /\ row.id = run_pk[t][1]
               /\ row.parameters_json = NewRun(run_pk[t][1]).parameters_json
               /\ row.solver = name_of(get_solver_adapter(call[t].solver, call[t].model_json))

\* C28: the provider is called at most three times; the first attempt that
\* returns ends the calls and its content is what _call_openai returns; when
\* three attempts have failed translate_to_model raises RuntimeError and
\* returns no model.
C28_AtMostThreeAttempts ==
    /\ llm.attempts <= 3
    /\ Len(llm.history) = llm.attempts
    /\ \A i \in 1..Len(llm.history) : llm.history[i].ok => i = Len(llm.history)
    /\ llm.raw # None
       => /\ llm.history[Len(llm.history)].ok
          /\ llm.raw[1] = llm.history[Len(llm.history)].content
    /\ (llm.attempts = 3 /\ \A i \in 1..3 : ~llm.history[i].ok)
       => /\ llm.pc = "done"
          /\ llm.raw = None
          /\ llm.out = Some(Raise("RuntimeError"))
    /\ (llm.pc = "calling" /\ llm.attempts > 0) => ~llm.history[Len(llm.history)].ok
    /\ (llm.out # None /\ ~llm.out[1].raised) => llm.raw # None

\* C28 witness: the third attempt returned after two failures and its model
\* was returned.
C28_Witness ==
    /\ llm.pc = "done"
    /\ llm.attempts = 3
    /\ llm.history[3].ok
    /\ ~llm.out[1].raised

\* C29: a non-empty solver name that is no alias yields the placeholder
\* carrying the name in lower case, also for the model types that have a
\* default adapter.
C29_UnknownNameIsPlaceholder ==
    \A m \in Made :
        (m.solver # None /\ m.solver[1] \in { S_gurobi, S_Gurobi })
        => m.adapter = CommercialSolver(S_gurobi)

\* C29 witness: "Gurobi" given with a model type that has a default adapter.
C29_Witness ==
    \E m \in Made :
        /\ m.solver = Some(S_Gurobi)
        /\ "type" \in DOMAIN m.model_json
        /\ m.model_json.type \in { S_LP, S_MIP, S_QP, S_NLP }
        /\ m.adapter = CommercialSolver(S_gurobi)

\* C30: a solver of None and the empty str select alike; without a solver,
\* a model with no type key and the types "lp", "Lp" and "LP" all go to
\* OR-Tools.
C30_AbsentSolverDefaultType ==
    /\ \A m, n \in Made :
         (NoExplicit(m) /\ NoExplicit(n) /\ m.model_json = n.model_json)
         => m.adapter = n.adapter
    /\ \A m \in Made :
         (NoExplicit(m) /\ "type" \notin DOMAIN m.model_json) => m.adapter = OrtoolsSolver
    /\ \A m \in Made :
         (/\ NoExplicit(m)
          /\ "type" \in DOMAIN m.model_json
          /\ m.model_json.type \in { S_lp, S_Lp, S_LP })
         => m.adapter = OrtoolsSolver

\* C30 witness: type "Lp" with solver None, and no type with solver "".
C30_Witness ==
    /\ \E m \in Made :
         /\ m.solver = None
         /\ "type" \in DOMAIN m.model_json
         /\ m.model_json.type = S_Lp
         /\ m.adapter = OrtoolsSolver
    /\ \E m \in Made :
         /\ m.solver = Some(<<>>)
         /\ "type" \notin DOMAIN m.model_json
         /\ m.adapter = OrtoolsSolver

\* The task has ended: it returned, or an exception left it.
TaskEnded(t) == pc[t] \in { "done", "raised", "db_raised" }

\* C31: a task that opened a session has closed it exactly once when it
\* ends, whether it returned, the adapter raised, or a query or commit
\* raised; the session is not closed while the task still runs.
C31_SessionClosedOnce ==
    \A t \in Tasks :
        /\ closes[t] <= 1
        /\ (TaskEnded(t) /\ session[t] # "none")
           => session[t] = "closed" /\ closes[t] = 1
        /\ pc[t] \in { "begin", "solve", "finish" }
           => session[t] = "open" /\ closes[t] = 0

\* C31 witness: one task ended with its adapter raising and the other with
\* a commit or query raising after its solve, each with its session closed.
C31_Witness ==
    \E t, u \in Tasks :
        /\ pc[t] = "raised"
        /\ session[t] = "closed"
        /\ closes[t] = 1
        /\ pc[u] = "db_raised"
        /\ result[u] # None
        /\ session[u] = "closed"
        /\ closes[u] = 1

====
